---- MODULE Spec2Model ----
(***************************************************************************)
(* RESP decoder of unit-testing/src/bin: the buffer decoder resp_parse of  *)
(* 19_exercise1_02_enum/main.rs and the streaming resp_parse of            *)
(* 20_redis_client_05_resp_bulk_string/main.rs.                            *)
(*                                                                         *)
(* Bytes are their numeric values (36 '$', 43 '+', 13 CR, 10 LF, 45 '-',   *)
(* 48..57 '0'..'9', 255 a byte that is never part of valid UTF-8).         *)
(* A buffer is a sequence of bytes.                                        *)
(*                                                                         *)
(* A usize is 64 bits wide, which TLC's integers cannot hold, so a usize   *)
(* is written [pow |-> p, off |-> o] and stands for p * 2^64 + o:          *)
(* p = 0 and o >= 0 for the small values, p = 1 and o < 0 for the values   *)
(* just below 2^64 (what a negative isize becomes under `as usize`).       *)
(***************************************************************************)
EXTENDS Integers, Sequences, FiniteSets, TLC

VARIABLES data, result, decoded, extra, sresult

vars == <<data, result, decoded, extra, sresult>>

\* ------------------------------------------------------------------ bounds

\* Longest buffer fed to the decoder.
MaxLen == 7
\* Most bytes fed after the tag while the first line has no terminator yet.
MaxLine == 4
\* Most bytes fed after the decoder has given a verdict other than
\* "more data needed".
MaxExtra == 1

\* The bytes the environment sends.
Byte == {36, 43, 13, 10, 45, 48, 49, 50, 51, 255}

\* ------------------------------------------------------------ library code

\* const NEWLINE: &[u8] = b"\r\n";
NEWLINE == <<13, 10>>

\* data[from..] of a slice
SliceFrom(s, from) == SubSeq(s, from + 1, Len(s))

\* data[..to] of a slice (the caller has checked to <= len)
SliceTo(s, to) == SubSeq(s, 1, to)

\* str::from_utf8(bytes).is_ok(): every byte below 128 is a one-byte code
\* point; 255 (the only byte >= 128 in Byte) is valid nowhere in UTF-8.
IsUtf8(s) == \A i \in 1..Len(s) : s[i] < 128

IsDigit(b) == b \in 48..57

RECURSIVE DigitsValue(_)
\* the base-10 value of a sequence of digit bytes, most significant first
DigitsValue(s) ==
    IF s = <<>> THEN 0
    ELSE 10 * DigitsValue(SubSeq(s, 1, Len(s) - 1)) + (s[Len(s)] - 48)

\* str::parse::<isize>(): an optional '+' or '-', then one or more digits.
\* The lines of this model are at most MaxLine + 1 bytes, far below the 19
\* digits of isize::MAX, so the overflow error of parse cannot arise.
ParseIsize(s) ==
    LET signed == s # <<>> /\ s[1] \in {43, 45}
        digits == IF signed THEN Tail(s) ELSE s
    IN  IF digits # <<>> /\ \A i \in 1..Len(digits) : IsDigit(digits[i])
        THEN [ok |-> TRUE,
              val |-> IF signed /\ s[1] = 45 THEN 0 - DigitsValue(digits)
                      ELSE DigitsValue(digits)]
        ELSE [ok |-> FALSE, val |-> 0]

\* `n as usize` of an isize n
AsUsize(n) == IF n >= 0 THEN [pow |-> 0, off |-> n] ELSE [pow |-> 1, off |-> n]

\* whether usize u + c reaches 2^64
AddOverflows(u, c) == u.pow = 1 /\ u.off + c >= 0

\* usize u + c modulo 2^64
WrappingAdd(u, c) ==
    IF AddOverflows(u, c) THEN [pow |-> 0, off |-> u.off + c]
    ELSE [pow |-> u.pow, off |-> u.off + c]

\* n < u for a small natural n and a usize u
LessThan(n, u) == u.pow = 1 \/ n < u.off

\* ----------------------------------------------- 19_exercise1_02_enum/main.rs

\* The two builds of the crate: "debug" checks integer overflow and panics
\* on it, "release" wraps.
Builds == {"debug", "release"}

NoResult == [kind |-> "NoResult"]
SimpleString(b) == [kind |-> "SimpleString", bytes |-> b]
BulkString(b) == [kind |-> "BulkString", bytes |-> b]
Null == [kind |-> "Null"]
MissingLength == [kind |-> "MissingLength"]
InvalidLength == [kind |-> "InvalidLength"]
InvalidData == [kind |-> "InvalidData"]
MissingEndOfLine == [kind |-> "MissingEndOfLine"]
\* required_len is a usize as described above; actual_len is the length of a
\* slice of the buffer and is written as a plain number.
NotEnoughData(required, actual) ==
    [kind |-> "NotEnoughData", required_len |-> required, actual_len |-> actual]
\* the thread panics instead of returning
Panic(why) == [kind |-> "Panic", why |-> why]

RECURSIVE PositionFrom(_, _, _)
\* the first 0-based i >= from with haystack[i .. i + len(needle)] = needle,
\* or -1: the scan of windows(needle.len()).position(..)
PositionFrom(haystack, needle, from) ==
    IF from + Len(needle) > Len(haystack) THEN -1
    ELSE IF SubSeq(haystack, from + 1, from + Len(needle)) = needle THEN from
    ELSE PositionFrom(haystack, needle, from + 1)

\* A scan for the terminator's first byte alone: a lone CR ends the line.
find_subsequence_first_byte(haystack, needle) ==
    PositionFrom(haystack, <<needle[1]>>, 0)

\* Option<usize>: -1 is None
find_subsequence(haystack, needle) == PositionFrom(haystack, needle, 0)

split_line(d) ==
    LET i == find_subsequence(d, NEWLINE)
    IN  IF i >= 0
        THEN [found |-> TRUE, line |-> SliceTo(d, i),
              rest |-> SliceFrom(d, i + Len(NEWLINE))]
        ELSE [found |-> FALSE, line |-> <<>>, rest |-> d]

parse_simple_string(d) ==
    LET s == split_line(d)
    IN  IF s.found THEN SimpleString(s.line) ELSE MissingEndOfLine

\* The payload found by a second search for the terminator instead of by
\* its length.
bulk_payload_second_search(build, length, rest) ==
    IF build = "debug" /\ AddOverflows(length, Len(NEWLINE))
    THEN Panic("attempt to add with overflow")
    ELSE LET required_len == WrappingAdd(length, Len(NEWLINE))
             actual_len == Len(rest)
         IN  IF LessThan(actual_len, required_len)
             THEN NotEnoughData(required_len, actual_len)
             ELSE IF split_line(rest).found
                  THEN BulkString(split_line(rest).line)
                  ELSE MissingEndOfLine

\* The length check off by one: `actual_len <= required_len`.
bulk_payload_off_by_one(build, length, rest) ==
    IF build = "debug" /\ AddOverflows(length, Len(NEWLINE))
    THEN Panic("attempt to add with overflow")
    ELSE LET required_len == WrappingAdd(length, Len(NEWLINE))
             actual_len == Len(rest)
         IN  IF LessThan(actual_len - 1, required_len)
             THEN NotEnoughData(required_len, actual_len)
             ELSE IF length.pow = 1 \/ length.off > Len(rest)
                  THEN Panic("range end index out of range for slice")
                  ELSE BulkString(SliceTo(rest, length.off))

\* lines 52-63: the payload step, for a length already cast to usize
bulk_payload(build, length, rest) ==
    IF build = "debug" /\ AddOverflows(length, Len(NEWLINE))
    THEN Panic("attempt to add with overflow")
    ELSE LET required_len == WrappingAdd(length, Len(NEWLINE))
             actual_len == Len(rest)
         IN  IF LessThan(actual_len, required_len)
             THEN NotEnoughData(required_len, actual_len)
             ELSE IF length.pow = 1 \/ length.off > Len(rest)
                  THEN Panic("range end index out of range for slice")
                  ELSE BulkString(SliceTo(rest, length.off))

\* Every negative length taken for the null marker: `length < 0`.
parse_bulk_string_any_negative(build, d) ==
    LET s == split_line(d)
    IN  IF ~s.found THEN MissingLength
        ELSE IF ~IsUtf8(s.line) THEN InvalidLength
        ELSE LET length == ParseIsize(s.line)
             IN  IF ~length.ok THEN InvalidLength
                 ELSE IF length.val < 0 THEN Null
                 ELSE bulk_payload(build, AsUsize(length.val), s.rest)

\* The length decoded before the terminator is looked for: without a
\* terminator the whole input is taken for the length line.
parse_bulk_string_decode_first(build, d) ==
    LET s == split_line(d)
        text == IF s.found THEN s.line ELSE d
    IN  IF ~IsUtf8(text) \/ ~ParseIsize(text).ok THEN InvalidLength
        ELSE IF ~s.found THEN MissingLength
        ELSE IF ParseIsize(text).val = -1 THEN Null
        ELSE bulk_payload(build, AsUsize(ParseIsize(text).val), s.rest)

parse_bulk_string(build, d) ==
    LET s == split_line(d)
    IN  IF ~s.found THEN MissingLength
        ELSE IF ~IsUtf8(s.line) THEN InvalidLength
        ELSE LET length == ParseIsize(s.line)
             IN  IF ~length.ok THEN InvalidLength
                 ELSE IF length.val = -1 THEN Null
                 ELSE bulk_payload(build, AsUsize(length.val), s.rest)

\* A dispatcher whose default arm is the simple-string parser.
resp_parse_default_simple(build, d) ==
    IF d # <<>> /\ d[1] = 36 THEN parse_bulk_string(build, Tail(d))
    ELSE IF d # <<>> THEN parse_simple_string(Tail(d))
    ELSE InvalidData

resp_parse(build, d) ==
    IF d # <<>> /\ d[1] = 43 THEN parse_simple_string(Tail(d))
    ELSE IF d # <<>> /\ d[1] = 36 THEN parse_bulk_string(build, Tail(d))
    ELSE InvalidData

\* ------------------------------------------------------------- the caller

\* The verdicts that more bytes can change: the caller refills the buffer
\* and decodes again from the start.
NeedsMoreData(r, d) ==
    \/ r.kind \in {"MissingLength", "MissingEndOfLine", "NotEnoughData"}
    \/ r.kind = "InvalidData" /\ d = <<>>

LineMissing(r) == r.kind \in {"MissingLength", "MissingEndOfLine"}

Init ==
    /\ data = <<>>
    /\ result = NoResult
    /\ decoded = FALSE
    /\ extra = 0
    /\ sresult = NoResult

\* The caller invokes resp_parse on the whole buffer. The build is chosen
\* per call: the two builds differ only in where a length of 2^64 - 2
\* panics, so this reaches the results of either build and no others.
Decode ==
    /\ ~decoded
    /\ \E build \in Builds : result' = resp_parse(build, data)
    /\ decoded' = TRUE
    /\ UNCHANGED <<data, extra, sresult>>

\* The I/O layer appends one more byte to the buffer; the last verdict is
\* kept until the next decode replaces it.
Receive(b) ==
    /\ decoded
    /\ Len(data) < MaxLen
    /\ LineMissing(result) => Len(data) - 1 < MaxLine
    /\ ~NeedsMoreData(result, data) => extra < MaxExtra
    /\ data' = Append(data, b)
    /\ decoded' = FALSE
    /\ extra' = IF NeedsMoreData(result, data) THEN 0 ELSE extra + 1
    /\ sresult' = NoResult
    /\ UNCHANGED result

Next ==
    \/ Decode
    \/ \E b \in Byte : Receive(b)

Spec == Init /\ [][Next]_vars

\* ------------------------------- 20_redis_client_05_resp_bulk_string/main.rs

\* char::is_whitespace on the one-byte code points
IsWhitespace(b) == b \in {9, 10, 11, 12, 13, 32}

RECURSIVE TrimEnd(_)
\* str::trim_end(): without its trailing whitespace
TrimEnd(s) ==
    IF s # <<>> /\ IsWhitespace(s[Len(s)])
    THEN TrimEnd(SubSeq(s, 1, Len(s) - 1))
    ELSE s

RECURSIVE TrimStart(_)
TrimStart(s) ==
    IF s # <<>> /\ IsWhitespace(s[1]) THEN TrimStart(Tail(s)) ELSE s

\* str::trim(): without its leading and trailing whitespace
Trim(s) == TrimStart(TrimEnd(s))

\* str::parse::<usize>(): an optional '+', then one or more digits; a '-'
\* is no digit of an unsigned type.
ParseUsize(s) ==
    LET digits == IF s # <<>> /\ s[1] = 43 THEN Tail(s) ELSE s
    IN  IF digits # <<>> /\ \A i \in 1..Len(digits) : IsDigit(digits[i])
        THEN [ok |-> TRUE, val |-> DigitsValue(digits)]
        ELSE [ok |-> FALSE, val |-> 0]

\* BufRead::read_line on a source holding src, of which pos bytes are
\* consumed: every byte up to and including the first LF, or up to the end
\* of the stream; an error when they are not UTF-8.
read_line(src, pos) ==
    LET unread == SliceFrom(src, pos)
        i == PositionFrom(unread, <<10>>, 0)
        n == IF i >= 0 THEN i + 1 ELSE Len(unread)
        line == SliceTo(unread, n)
    IN  [ok |-> IsUtf8(line), line |-> line, pos |-> pos + n]

\* Read::read_exact of n bytes: fails at the end of the stream
read_exact(src, pos, n) ==
    IF Len(src) - pos < n
    THEN [ok |-> FALSE, bytes |-> <<>>, pos |-> Len(src)]
    ELSE [ok |-> TRUE, bytes |-> SubSeq(src, pos + 1, pos + n), pos |-> pos + n]

\* Ok(String), with the number of bytes taken from the reader
StreamOk(text, consumed) == [kind |-> "Ok", text |-> text, consumed |-> consumed]
\* Err(Box<dyn Error>)
StreamErr(why, consumed) == [kind |-> "Err", why |-> why, consumed |-> consumed]

stream_parse_simple_string(src, pos) ==
    LET l == read_line(src, pos)
    IN  IF ~l.ok THEN StreamErr("stream did not contain valid UTF-8", l.pos)
        ELSE StreamOk(TrimEnd(l.line), l.pos)

stream_parse_bulk_string(src, pos) ==
    LET l == read_line(src, pos)
        data_length == ParseUsize(Trim(l.line))
        payload == read_exact(src, l.pos, data_length.val)
        newline == read_exact(src, payload.pos, 2)
    IN  IF ~l.ok THEN StreamErr("stream did not contain valid UTF-8", l.pos)
        ELSE IF ~data_length.ok THEN StreamErr("ParseIntError", l.pos)
        ELSE IF ~payload.ok THEN StreamErr("failed to fill whole buffer", payload.pos)
        ELSE IF ~newline.ok THEN StreamErr("failed to fill whole buffer", newline.pos)
        ELSE IF ~IsUtf8(payload.bytes) THEN StreamErr("FromUtf8Error", newline.pos)
        ELSE StreamOk(payload.bytes, newline.pos)

stream_resp_parse(src) ==
    LET resp_type == read_exact(src, 0, 1)
    IN  IF ~resp_type.ok THEN StreamErr("failed to fill whole buffer", resp_type.pos)
        ELSE IF resp_type.bytes[1] = 43
             THEN stream_parse_simple_string(src, resp_type.pos)
        ELSE IF resp_type.bytes[1] = 36
             THEN stream_parse_bulk_string(src, resp_type.pos)
        ELSE StreamErr("Illegal RESP", resp_type.pos)

\* The streaming resp_parse reads a source that delivers the bytes of the
\* buffer and then ends.
StreamRead ==
    /\ decoded
    /\ sresult = NoResult
    /\ sresult' = stream_resp_parse(data)
    /\ UNCHANGED <<data, result, decoded, extra>>

StreamNext ==
    \/ Decode
    \/ \E b \in Byte : Receive(b)
    \/ StreamRead

StreamSpec == Init /\ [][StreamNext]_vars

\* ------------------------------------------------- the words of the claims

\* The wire format, stated without the decoder's own scan.
StartsWith(d, tag) == d # <<>> /\ d[1] = tag

\* s holds the two bytes CR LF at (1-based) positions i, i + 1
TerminatorAt(s, i) == i \in 1..(Len(s) - 1) /\ s[i] = 13 /\ s[i + 1] = 10

HasTerminator(s) == \E i \in 1..(Len(s) - 1) : TerminatorAt(s, i)

FirstTerminator(s) ==
    CHOOSE i \in 1..(Len(s) - 1) :
        TerminatorAt(s, i) /\ \A j \in 1..(i - 1) : ~TerminatorAt(s, j)

\* the bytes between the tag and the first terminator
FirstLine(d) == SubSeq(Tail(d), 1, FirstTerminator(Tail(d)) - 1)

\* the bytes that follow the first terminator
AfterFirstLine(d) == SubSeq(Tail(d), FirstTerminator(Tail(d)) + 2, Len(d) - 1)

\* an optional sign and then one or more decimal digits, in ASCII
WellFormedInteger(s) ==
    \E k \in 0..1 :
        /\ Len(s) > k
        /\ k = 1 => s[1] \in {43, 45}
        /\ \A i \in (k + 1)..Len(s) : s[i] \in 48..57

\* the buffer is `$`, a length line that decodes, and its terminator
HasLength(d) ==
    /\ StartsWith(d, 36)
    /\ HasTerminator(Tail(d))
    /\ IsUtf8(FirstLine(d))
    /\ ParseIsize(FirstLine(d)).ok

LengthField(d) == ParseIsize(FirstLine(d)).val

IsFrame(r) == r.kind \in {"SimpleString", "BulkString", "Null"}

IsRespError(r) ==
    r.kind \in {"MissingLength", "InvalidLength", "InvalidData",
                "MissingEndOfLine", "NotEnoughData"}

\* ------------------------------------------------------------------ claims

\* C1: for every buffer resp_parse returns a frame or a RespError; it never
\* panics, on an overflow of length + 2 or on a slice out of bounds.
C1_NeverPanics == decoded => IsFrame(result) \/ IsRespError(result)

\* C2: a `$` buffer whose length line decodes to a negative integer other
\* than -1 fails with InvalidLength.
C2_NegativeLengthIsInvalid ==
    (decoded /\ HasLength(data) /\ LengthField(data) < -1)
        => result = InvalidLength

\* C3: in NotEnoughData{required, actual}, actual is the number of bytes
\* after the length line's terminator, required is the decoded length
\* field plus 2, and actual < required.
C3_NotEnoughDataFields ==
    (decoded /\ result.kind = "NotEnoughData") =>
        /\ HasLength(data)
        /\ result.actual_len = Len(AfterFirstLine(data))
        /\ result.required_len = [pow |-> 0, off |-> LengthField(data) + 2]
        /\ result.actual_len < LengthField(data) + 2

\* C4: `$`, a length line decoding to L >= 0, its terminator and at least
\* L + 2 further bytes give BulkString of exactly the first L bytes after
\* the terminator, whatever those bytes and the two after them are.
C4_BulkStringPayload ==
    (/\ decoded
     /\ HasLength(data)
     /\ LengthField(data) >= 0
     /\ Len(AfterFirstLine(data)) >= LengthField(data) + 2) =>
        /\ result = BulkString(SubSeq(AfterFirstLine(data), 1, LengthField(data)))
        /\ Len(result.bytes) = LengthField(data)

\* C4's case: a payload of one byte, a lone CR, followed by two bytes that
\* are not the terminator (the first of them completes a CR LF that the
\* decoder does not look for).
C4_Witness ==
    /\ decoded
    /\ HasLength(data)
    /\ LengthField(data) = 1
    /\ AfterFirstLine(data) = <<13, 10, 255>>
    /\ result = BulkString(<<13>>)

\* C5: resp_parse returns Null exactly when the buffer is `$`, a length
\* line that decodes to -1 and its terminator; nothing need follow.
C5_NullIffSentinel ==
    decoded => (result = Null <=> (HasLength(data) /\ LengthField(data) = -1))

\* C5's case: `$-1\r\n` alone.
C5_Witness == decoded /\ data = <<36, 45, 49, 13, 10>> /\ result = Null

\* C6: a `$` buffer with no terminator after the tag fails with
\* MissingLength whatever its bytes are; with a terminator and a first line
\* that is no well-formed integer it fails with InvalidLength.
C6_LengthLineErrors ==
    (decoded /\ StartsWith(data, 36)) =>
        /\ ~HasTerminator(Tail(data)) => result = MissingLength
        /\ (HasTerminator(Tail(data)) /\ ~WellFormedInteger(FirstLine(data)))
               => result = InvalidLength

\* C6's case: digits followed by a byte that is no digit, then the
\* terminator (the shape of `$11hello\r\n`).
C6_Witness ==
    /\ decoded
    /\ StartsWith(data, 36)
    /\ HasTerminator(Tail(data))
    /\ Len(FirstLine(data)) = 2
    /\ FirstLine(data)[1] = 49
    /\ FirstLine(data)[2] = 255
    /\ result = InvalidLength

\* C7: a `+` buffer gives SimpleString of every byte between the tag and
\* the first CR LF, and MissingEndOfLine when there is no CR LF.
C7_SimpleStringLine ==
    (decoded /\ StartsWith(data, 43)) =>
        IF HasTerminator(Tail(data))
        THEN result = SimpleString(FirstLine(data))
        ELSE result = MissingEndOfLine

\* C7's case: a line holding a lone CR and a lone LF, and bytes after the
\* terminator.
C7_Witness ==
    /\ decoded
    /\ result.kind = "SimpleString"
    /\ result.bytes = <<10, 13>>
    /\ Len(data) > Len(result.bytes) + 3

\* C8: InvalidData exactly for the empty buffer and for a first byte other
\* than `+` and `$`; otherwise the result is the frame parser's, on the
\* bytes after the tag.
C8_Dispatch ==
    decoded =>
        /\ result = InvalidData
               <=> (data = <<>> \/ (data[1] # 43 /\ data[1] # 36))
        /\ StartsWith(data, 43) => result = parse_simple_string(Tail(data))
        /\ StartsWith(data, 36)
               => \E build \in Builds : result = parse_bulk_string(build, Tail(data))

\* C8's case: a buffer whose first byte is no tag although a tag follows.
C8_Witness ==
    /\ decoded
    /\ Len(data) >= 2
    /\ data[1] = 45
    /\ data[2] = 36
    /\ result = InvalidData

\* C10: decoding again after one more byte moves NotEnoughData{required,
\* actual} to NotEnoughData{required, actual + 1}, or to a BulkString of
\* required - 2 bytes once actual + 1 reaches required; and a frame, once
\* returned, is returned again. (Byte by byte this is the claim for every
\* appended sequence.)
C10_Step ==
    (~decoded /\ decoded') =>
        /\ result.kind = "NotEnoughData" =>
               IF LessThan(result.actual_len + 1, result.required_len)
               THEN result' = NotEnoughData(result.required_len,
                                            result.actual_len + 1)
               ELSE /\ result'.kind = "BulkString"
                    /\ Len(result'.bytes) = result.required_len.off - 2
        /\ IsFrame(result) => result' = result

C10_Progress == [][C10_Step]_vars

\* C10's case: a bulk string that became complete while the buffer grew
\* (NotEnoughData with 0 and then 1 of the 2 bytes required), decoded once
\* more after a further byte.
C10_Witness ==
    /\ decoded
    /\ Len(data) = 7
    /\ SubSeq(data, 1, 4) = <<36, 48, 13, 10>>
    /\ result = BulkString(<<>>)
    /\ extra = 1

\* C9: on a byte sequence the buffer decoder decodes to SimpleString(p) or
\* BulkString(p) with p valid text, the streaming resp_parse returns the
\* text p, having consumed the tag, the line with its terminator and, for
\* a bulk string, the payload and 2 more bytes.
C9_SameFraming ==
    (/\ decoded
     /\ sresult # NoResult
     /\ result.kind \in {"SimpleString", "BulkString"}
     /\ IsUtf8(result.bytes)) =>
        /\ sresult.kind = "Ok"
        /\ sresult.text = result.bytes
        /\ sresult.consumed =
               IF result.kind = "SimpleString"
               THEN 1 + Len(FirstLine(data)) + 2
               ELSE 1 + Len(FirstLine(data)) + 2 + Len(result.bytes) + 2

====
